---- MODULE Spec2Model ----
(***************************************************************************)
(* A model of racknerd_exporter.py: the RackNerdClient session state       *)
(* machine (is_logged_in, ensure_logged_in, login, get_vms, get_vm_stats), *)
(* the RackNerdCollector (parse_size, collect) and main.                   *)
(*                                                                         *)
(* Every network call of the client is a point where a thread waits for    *)
(* the panel: pc[t] names the request in flight.  One action is the        *)
(* arrival of a response followed by all the local code the thread runs    *)
(* until it issues its next request or finishes.  What the panel answers   *)
(* is not under the program's control: each response is drawn from the     *)
(* sets below.                                                             *)
(***************************************************************************)
EXTENDS Integers, Sequences, FiniteSets, TLC

(***************************************************************************)
(* Bounds of the model.                                                    *)
(***************************************************************************)
\* rows of the inventory table on one landing page
MaxRows == 2
\* nested get_vms frames the interpreter allows before RecursionError
MaxDepth == 3
\* characters of a size string handed to parse_size on its own
MaxSizeLen == 4

(***************************************************************************)
(* Strings are sequences of one-character strings, so that int(), float()  *)
(* and the regular expression of parse_size are computed, not assumed.     *)
(***************************************************************************)
Digits == {"0", "1", "2", "3", "4", "5", "6", "7", "8", "9"}

DigitVal(c) ==
    CASE c = "0" -> 0 [] c = "1" -> 1 [] c = "2" -> 2 [] c = "3" -> 3
      [] c = "4" -> 4 [] c = "5" -> 5 [] c = "6" -> 6 [] c = "7" -> 7
      [] c = "8" -> 8 [] c = "9" -> 9 [] OTHER -> 0

IsSpace(c) == c = " "

\* str.strip(): drop leading and trailing whitespace
RECURSIVE LStrip(_)
LStrip(s) == IF s # <<>> /\ IsSpace(Head(s)) THEN LStrip(Tail(s)) ELSE s

RECURSIVE RStrip(_)
RStrip(s) ==
    IF s # <<>> /\ IsSpace(s[Len(s)]) THEN RStrip(SubSeq(s, 1, Len(s) - 1)) ELSE s

Strip(s) == RStrip(LStrip(s))

AllDigits(s) == \A k \in 1..Len(s) : s[k] \in Digits

RECURSIVE DigitsVal(_)
DigitsVal(s) ==
    IF s = <<>> THEN 0
    ELSE 10 * DigitsVal(SubSeq(s, 1, Len(s) - 1)) + DigitVal(s[Len(s)])

CountOf(s, c) == Cardinality({k \in 1..Len(s) : s[k] = c})

\* the text after a leading sign, and the sign
Unsigned(s) == IF s # <<>> /\ Head(s) \in {"-", "+"} THEN Tail(s) ELSE s
SignOf(s) == IF s # <<>> /\ Head(s) = "-" THEN -1 ELSE 1

\* int(text): surrounding whitespace, an optional sign, one or more digits;
\* anything else raises ValueError
PyIntStr(s) ==
    LET u == Unsigned(Strip(s))
    IN  IF u # <<>> /\ AllDigits(u)
        THEN [ok |-> TRUE, val |-> SignOf(Strip(s)) * DigitsVal(u)]
        ELSE [ok |-> FALSE, val |-> 0]

\* a decimal numeral of digits and at most one dot, at least one digit:
\* num / 10^scale
WithoutDots(s) == SelectSeq(s, LAMBDA c : c # ".")

RECURSIVE DotPos(_)
DotPos(s) == IF s = <<>> \/ Head(s) = "." THEN 1 ELSE 1 + DotPos(Tail(s))

IsDecimal(s) ==
    /\ \A k \in 1..Len(s) : s[k] \in Digits \cup {"."}
    /\ CountOf(s, ".") <= 1
    /\ WithoutDots(s) # <<>>

DecimalOf(s) ==
    [num |-> DigitsVal(WithoutDots(s)),
     scale |-> IF CountOf(s, ".") = 0 THEN 0 ELSE Len(s) - DotPos(s)]

\* float(text): surrounding whitespace, an optional sign, a decimal numeral;
\* anything else over this alphabet raises ValueError
PyFloatStr(s) ==
    LET u == Unsigned(Strip(s))
    IN  IF IsDecimal(u)
        THEN [ok |-> TRUE, num |-> SignOf(Strip(s)) * DecimalOf(u).num,
              scale |-> DecimalOf(u).scale]
        ELSE [ok |-> FALSE, num |-> 0, scale |-> 0]

(***************************************************************************)
(* JSON values of a response body and Python's view of them.               *)
(***************************************************************************)
Str(s) == [t |-> "str", s |-> s, n |-> 0]
Num(n) == [t |-> "num", s |-> <<>>, n |-> n]
\* JSON null, Python None
JNull == [t |-> "null", s |-> <<>>, n |-> 0]
\* JSON true / false, Python True / False
Bool(b) == [t |-> "bool", s |-> <<>>, n |-> IF b THEN 1 ELSE 0]
\* the key is not in the object
Missing == [t |-> "missing", s |-> <<>>, n |-> 0]

\* dict.get(key): None when the key is missing
Get(d, key) == IF d[key] = Missing THEN JNull ELSE d[key]
\* dict.get(key, default)
GetOr(d, key, default) == IF d[key] = Missing THEN default ELSE d[key]

\* truth value of a Python object
Truthy(v) ==
    CASE v.t = "str" -> v.s # <<>>
      [] v.t \in {"num", "bool"} -> v.n # 0
      [] OTHER -> FALSE

NullText == <<"n", "u", "l", "l">>

\* int(value) under "except (ValueError, TypeError)": the state of line 395-399
PyInt(v) ==
    CASE v.t = "str" -> PyIntStr(v.s)
      [] v.t \in {"num", "bool"} -> [ok |-> TRUE, val |-> v.n]
      [] OTHER -> [ok |-> FALSE, val |-> 0]

\* float(value): raises ValueError or TypeError when ok is FALSE
PyFloat(v) ==
    CASE v.t = "str" -> PyFloatStr(v.s)
      [] v.t \in {"num", "bool"} -> [ok |-> TRUE, num |-> v.n, scale |-> 0]
      [] OTHER -> [ok |-> FALSE, num |-> 0, scale |-> 0]

(***************************************************************************)
(* RackNerdCollector.parse_size.  A size is num / 10^scale * 1024^unit     *)
(* bytes; raised says the call ended in an exception instead.              *)
(***************************************************************************)
Upper(c) ==
    CASE c = "g" -> "G" [] c = "m" -> "M" [] c = "t" -> "T" [] c = "k" -> "K"
      [] c = "b" -> "B" [] OTHER -> c

\* multipliers: the power of 1024 of each unit
UnitPower(u) ==
    CASE u = <<"K", "B">> -> 1 [] u = <<"M", "B">> -> 2
      [] u = <<"G", "B">> -> 3 [] u = <<"T", "B">> -> 4 [] OTHER -> 3

ZeroSize == [raised |-> FALSE, num |-> 0, scale |-> 0, unit |-> 0]
SizeError == [raised |-> TRUE, num |-> 0, scale |-> 0, unit |-> 0]

\* ([\d.]+): the longest prefix of digits and dots
RECURSIVE NumberPrefix(_)
NumberPrefix(s) ==
    IF s # <<>> /\ Head(s) \in Digits \cup {"."}
    THEN <<Head(s)>> \o NumberPrefix(Tail(s))
    ELSE <<>>

\* (GB|MB|TB|KB)? with re.IGNORECASE, after \s*; 'GB' when the group is empty
UnitOf(rest) ==
    LET r == LStrip(rest)
        u == IF Len(r) >= 2 THEN <<Upper(r[1]), Upper(r[2])>> ELSE <<>>
    IN  IF u \in {<<"G", "B">>, <<"M", "B">>, <<"T", "B">>, <<"K", "B">>}
        THEN u ELSE <<"G", "B">>

parse_size(v) ==
    IF ~Truthy(v) \/ v = Str(NullText) THEN ZeroSize
    ELSE IF v.t # "str" THEN SizeError
    ELSE LET s == Strip(v.s)
             g == NumberPrefix(s)
         IN  IF g = <<>> THEN ZeroSize
             ELSE IF ~IsDecimal(g) THEN SizeError
             ELSE [raised |-> FALSE,
                   num |-> DecimalOf(g).num,
                   scale |-> DecimalOf(g).scale,
                   unit |-> UnitPower(UnitOf(SubSeq(s, Len(g) + 1, Len(s))))]

(***************************************************************************)
(* What the panel can answer.  A response is a transport failure (err), or *)
(* an HTTP status code with a body.                                        *)
(***************************************************************************)
HttpOk == 200
HttpError == 500
\* response.raise_for_status() raises for 4xx and 5xx
RaisesForStatus(code) == code >= 400

\* rows of the table 'vmlist': the number of td cells, the a element of the
\* second cell (link), the value of _v in its href ("" when the href has no
\* ?_v=...), the link text and the text of the third cell
Row(cells, link, v, hostname, ip) ==
    [cells |-> cells, link |-> link, v |-> v, hostname |-> hostname, ip |-> ip]

Rows ==
    { Row(6, TRUE, "101", "alpha", "10.0.0.1"),
      Row(6, TRUE, "102", "beta", "10.0.0.2"),
      Row(6, TRUE, "103", "alpha", "10.0.0.3"),
      Row(5, TRUE, "104", "gamma", "10.0.0.4"),
      Row(6, FALSE, "", "", "10.0.0.5"),
      Row(6, TRUE, "", "delta", "10.0.0.6") }

\* the table lists a row once
RowSeqs ==
    {rs \in UNION {[1..n -> Rows] : n \in 0..MaxRows} :
        \A i, j \in 1..Len(rs) : rs[i] = rs[j] => i = j}

\* GET /home.php: logout says 'logout.php' is in the text, vmlist says
\* 'vmlist' is in the text; table is "none" (no table with id vmlist),
\* "notbody" or "rows"
Page(err, code, logout, vmlist, table, rows) ==
    [err |-> err, code |-> code, logout |-> logout, vmlist |-> vmlist,
     table |-> table, rows |-> rows]

TransportError == Page(TRUE, 0, FALSE, FALSE, "none", <<>>)

\* a page with the table has 'vmlist' in its text
Pages ==
    {TransportError}
    \cup {Page(FALSE, c, lo, vl, "none", <<>>) :
              c \in {HttpOk, HttpError}, lo \in BOOLEAN, vl \in BOOLEAN}
    \cup {Page(FALSE, c, lo, TRUE, "notbody", <<>>) :
              c \in {HttpOk, HttpError}, lo \in BOOLEAN}
    \cup {Page(FALSE, HttpOk, lo, TRUE, "rows", rs) :
              lo \in BOOLEAN, rs \in RowSeqs}

\* POST /login.php: json is "dict", "other" (JSON that is not an object) or
\* "invalid" (response.json() raises ValueError)
Reply(err, code, json, body) ==
    [err |-> err, code |-> code, json |-> json, body |-> body]

One == <<"1">>
LoginBody(success, status) == [success |-> success, status |-> status]
NoBody == LoginBody(Missing, Missing)

\* the panel sends status as a JSON string (lines 98-119 compare it with
\* "1", "4", "2", "3")
LoginReplies ==
    { Reply(TRUE, 0, "invalid", NoBody),
      Reply(FALSE, HttpError, "invalid", NoBody),
      Reply(FALSE, HttpOk, "invalid", NoBody),
      Reply(FALSE, HttpOk, "other", NoBody) }
    \cup {Reply(FALSE, HttpOk, "dict", LoginBody(su, st)) :
              su \in {Bool(TRUE), Bool(FALSE), Missing},
              st \in {Str(One), Str(<<"2">>), Str(<<"3">>), Str(<<"4">>),
                      Str(<<"9">>), Missing}}

\* POST /_vm_remote.php act=getstatsdiskusage: the JSON object of a running
\* VM, and the objects that differ from it in one key
Chars100GB == <<"1", "0", "0", " ", "G", "B">>
Chars42GB == <<"4", "2", " ", "G", "B">>
Chars2031GB == <<"2", "0", ".", "3", "1", " ", "G", "B">>
Chars512MB == <<"5", "1", "2", " ", "M", "B">>
Chars3Dots == <<"1", ".", "2", ".", "3", " ", "G", "B">>

FullStats ==
    [success |-> Str(One), state |-> Str(One),
     totalbw |-> Str(Chars100GB), usedbw |-> Str(Chars42GB),
     percentbw |-> Str(<<"4", "2">>),
     totalhdd |-> Str(Chars2031GB), usedhdd |-> Str(<<"5">>),
     percenthdd |-> Str(<<"2", "4", ".", "6">>),
     totalmem |-> Str(Chars512MB), usedmem |-> Str(<<"1", "2", "8", "m", "b">>),
     percentmem |-> Str(<<"2", "5">>),
     totalvswap |-> Str(<<"1", " ", "T", "B">>), usedvswap |-> Str(<<"0">>),
     percentvswap |-> Str(<<"0">>)]

TotalKeys == {"totalbw", "totalhdd", "totalmem", "totalvswap"}
UsedKeys == {"usedbw", "usedhdd", "usedmem", "usedvswap"}
PercentKeys == {"percentbw", "percenthdd", "percentmem", "percentvswap"}

OtherValues(key) ==
    CASE key = "success" -> {Missing, Str(<<"0">>), Num(1)}
      [] key = "state" ->
            {Str(<<"0">>), Str(<<"2">>), Str(<<"x">>), Missing, JNull}
      [] key \in TotalKeys ->
            {Missing, Str(NullText), Str(Chars3Dots), Str(<<"x">>), Num(5)}
      [] key \in UsedKeys -> {Missing, JNull, Str(<<"x">>), Str(Chars3Dots)}
      [] key \in PercentKeys -> {Missing, JNull, Str(<<"x">>)}

StatsBodies ==
    {FullStats}
    \cup {[FullStats EXCEPT ![k] = v] :
              k \in {"success"}, v \in OtherValues("success")}
    \cup {[FullStats EXCEPT ![k] = v] : k \in {"state"}, v \in OtherValues("state")}
    \cup UNION {{[FullStats EXCEPT ![k] = v] : v \in OtherValues(k)} :
                   k \in TotalKeys \cup UsedKeys \cup PercentKeys}

StatsReplies ==
    { Reply(TRUE, 0, "invalid", FullStats),
      Reply(FALSE, HttpError, "invalid", FullStats),
      Reply(FALSE, HttpOk, "invalid", FullStats),
      Reply(FALSE, HttpOk, "other", FullStats) }
    \cup {Reply(FALSE, HttpOk, "dict", b) : b \in StatsBodies}

(***************************************************************************)
(* The pure parts of the handlers.                                         *)
(***************************************************************************)
\* is_logged_in, lines 42-55, on the response of its GET
is_logged_in(p) == ~p.err /\ p.code = HttpOk /\ p.logout /\ p.vmlist

\* login, lines 85-136: the branch the response of the POST takes
login_branch(r) ==
    IF r.err \/ RaisesForStatus(r.code) THEN "error"
    ELSE IF r.json = "invalid" THEN "not_json"
    ELSE IF r.json # "dict" THEN "error"
    ELSE IF ~Truthy(Get(r.body, "success")) THEN "no_success"
    ELSE LET status == Get(r.body, "status")
         IN  CASE status = Str(One) -> "1"
               [] status = Str(<<"4">>) -> "4"
               [] status = Str(<<"2">>) -> "2"
               [] status = Str(<<"3">>) -> "3"
               [] OTHER -> "unknown"

\* login without the test of line 106: any page that arrives verifies
login_unverified(p) == ~p.err

\* login, lines 105-112, on the response of the verification GET
login_verified(p) == ~p.err /\ p.logout

\* get_vms without the test of line 188: a link without _v is enough
row_with_link(row) == row.cells >= 6 /\ row.link

\* get_vms, lines 174-207: the rows that become VMs
row_ok(row) == row.cells >= 6 /\ row.link /\ row.v # ""

RECURSIVE parse_rows(_)
parse_rows(rows) ==
    IF rows = <<>> THEN <<>>
    ELSE LET row == Head(rows)
         IN  (IF row_ok(row)
              THEN <<[vm_id |-> row.v, hostname |-> row.hostname,
                      ip_address |-> row.ip]>>
              ELSE <<>>) \o parse_rows(Tail(rows))

\* get_vm_stats, lines 230-241: whether the reply is returned as the stats
stats_available(r) ==
    /\ ~r.err
    /\ ~RaisesForStatus(r.code)
    /\ r.json = "dict"
    /\ Get(r.body, "success") = Str(One)

(***************************************************************************)
(* State.                                                                  *)
(*   logged_in   RackNerdClient._logged_in, shared by every thread         *)
(*   th          one record per thread: 0 is main, the others are the      *)
(*               threads on which the metrics server runs collect          *)
(*   exit_code   "running", or the value main returned                     *)
(*   serving     start_http_server has been called                         *)
(*   sent        the request the last step issued ("none" if it issued     *)
(*               none)                                                     *)
(*   locked      some login response so far took the branch of status "2"  *)
(*               or "3" (lines 116-121)                                    *)
(*   size_str    the argument of a call of parse_size on its own           *)
(*   size        whether that call was made, and how it ended              *)
(*   landing     the response of a panel that answers every GET of         *)
(*               /home.php alike; read only by SpecStable                  *)
(***************************************************************************)
VARIABLES logged_in, th, exit_code, serving, sent, locked, size_str, size, landing

vars ==
    <<logged_in, th, exit_code, serving, sent, locked, size_str, size, landing>>

Main == 0
\* threads that run one scrape at a time
Scrapers == {1}
\* threads of a server that answers two pulls at once
ConcurrentScrapers == {1, 2}
Threads == {Main} \cup ConcurrentScrapers

\* the metric families of collect, in the order they are yielded
Families ==
    <<"vm_info", "vm_state", "vm_stats_up",
      "bandwidth_total", "bandwidth_used", "bandwidth_percent",
      "disk_total", "disk_used", "disk_percent",
      "memory_total", "memory_used", "memory_percent",
      "vswap_total", "vswap_used", "vswap_percent">>

FamilyNames == {Families[k] : k \in 1..Len(Families)}

\* GaugeMetricFamily(...): no samples yet
NoSamples == [f \in FamilyNames |-> <<>>]

\* add_metric(labels, value)
Sample(labels, value) == [labels |-> labels, value |-> value]

\* what one ensure_logged_in call did: the flag it found, whether it probed,
\* what the probe said, how many login() calls it made, the flag when it
\* called login, its return value and the flag when it returned
NoEnsure ==
    [done |-> FALSE, flag0 |-> FALSE, probed |-> FALSE, probe_ok |-> FALSE,
     logins |-> 0, flag_at_login |-> FALSE, result |-> FALSE, flag_after |-> FALSE,
     login_result |-> FALSE]

\* what one login() call saw and returned
NoLogin ==
    [done |-> FALSE, post |-> Reply(TRUE, 0, "invalid", NoBody), verify |-> "none",
     result |-> FALSE, flag_after |-> FALSE]

\* the login() call before the last one in the same scrape: the branch it
\* took, what its verification saw and what it returned
NoPrevious == [done |-> FALSE, branch |-> "none", verify |-> "none", result |-> FALSE]

Previous(l) ==
    [done |-> TRUE, branch |-> login_branch(l.post), verify |-> l.verify,
     result |-> l.result]

\* the landing page get_vms read its rows from: whether it had the table
\* and its rows
NoListing == [done |-> FALSE, table |-> "none", rows |-> <<>>]

IdleThread ==
    [pc |-> "idle", op |-> "none", site |-> "none", depth |-> 0, fetches |-> 0,
     vms |-> <<>>, idx |-> 0, samples |-> NoSamples, result |-> "none",
     asked |-> <<>>, got |-> <<>>, bad_percent |-> FALSE,
     ens |-> NoEnsure, last_login |-> NoLogin, prev_login |-> NoPrevious,
     listed |-> NoListing]

\* parse_size has not been called
NotParsed == [called |-> FALSE, result |-> ZeroSize]

\* the process before main runs
InitProcess ==
    /\ logged_in = FALSE
    /\ th = [t \in Threads |-> IF t = Main THEN [IdleThread EXCEPT !.op = "main"]
                                ELSE IdleThread]
    /\ exit_code = "running"
    /\ serving = FALSE
    /\ sent = "none"
    /\ locked = FALSE

Init ==
    /\ InitProcess
    /\ size_str = <<>>
    /\ size = NotParsed
    /\ landing = TransportError

(***************************************************************************)
(* A step of thread t takes a context c = [t: the thread's record, f: the  *)
(* flag, s: the request issued, srv: serving, ec: exit_code] through the   *)
(* code.  The operators below are the pieces of the methods between two    *)
(* requests.                                                               *)
(***************************************************************************)
Context(t) ==
    [t |-> th[t], f |-> logged_in, s |-> "none", srv |-> serving, ec |-> exit_code]

Commit(t, c) ==
    /\ th' = [th EXCEPT ![t] = c.t]
    /\ logged_in' = c.f
    /\ sent' = c.s
    /\ serving' = c.srv
    /\ exit_code' = c.ec
    /\ UNCHANGED <<size_str, size, landing>>

\* login, lines 66-84: post the credentials
login(c) ==
    [c EXCEPT !.t.pc = "login", !.s = "login", !.t.last_login = NoLogin]

\* ensure_logged_in, lines 57-64, up to its first request: the probe of
\* is_logged_in when the flag is set, else the flag is cleared and login()
\* is called
ensure_logged_in(c, site) ==
    LET c1 == [c EXCEPT !.t.site = site, !.t.ens = [NoEnsure EXCEPT !.flag0 = c.f]]
    IN  IF c1.f
        THEN [c1 EXCEPT !.t.pc = "probe", !.s = "probe", !.t.ens.probed = TRUE]
        ELSE LET c2 == [c1 EXCEPT !.f = FALSE]
             IN  login([c2 EXCEPT !.t.ens.logins = @ + 1,
                                  !.t.ens.flag_at_login = c2.f])

\* ensure_logged_in without line 63: the flag is left as it was
ensure_relogin_keeps_flag(c) ==
    login([c EXCEPT !.t.ens.logins = @ + 1, !.t.ens.flag_at_login = c.f])

\* ensure_logged_in, lines 62-64, after a probe that failed
ensure_relogin(c) ==
    LET c2 == [c EXCEPT !.f = FALSE]
    IN  login([c2 EXCEPT !.t.ens.logins = @ + 1, !.t.ens.flag_at_login = c2.f])

\* get_vms, line 140
get_vms(c) == ensure_logged_in(c, "list")

\* get_vm_stats, line 218
get_vm_stats(c) == ensure_logged_in(c, "stats")

Finish(c, result) ==
    [c EXCEPT !.t.pc = "done", !.t.result = result, !.t.prev_login = NoPrevious]

\* collect, lines 377-388: the head of one iteration of the loop over vms
collect_vm(c) ==
    LET vm == c.t.vms[c.t.idx]
        c1 == [c EXCEPT !.t.samples["vm_info"] =
                            Append(@, Sample(<<vm.hostname, vm.ip_address>>, 1)),
                        !.t.asked = Append(@, vm.vm_id)]
    IN  get_vm_stats(c1)

\* collect, lines 404-426: one resource of a VM whose stats are available.
\* s = [raised, samples]; strict is the test "not in ['null', None]" of
\* memory and vswap.  An exception of parse_size or float leaves collect.
resource(s, stats, hostname, total, used, percent, strict) ==
    LET tv == Get(stats, total)
        present == Truthy(tv) /\ (strict => tv # Str(NullText))
        t == parse_size(stats[total])
        u == parse_size(GetOr(stats, used, Str(<<"0">>)))
        p == PyFloat(GetOr(stats, percent, Str(<<"0">>)))
        name == IF total = "totalbw" THEN "bandwidth"
                ELSE IF total = "totalhdd" THEN "disk"
                ELSE IF total = "totalmem" THEN "memory" ELSE "vswap"
    IN  IF s.raised \/ ~present THEN s
        ELSE IF t.raised \/ u.raised \/ ~p.ok THEN [s EXCEPT !.raised = TRUE]
        ELSE [s EXCEPT
                !.samples[name \o "_total"] = Append(@, Sample(<<hostname>>, t)),
                !.samples[name \o "_used"] = Append(@, Sample(<<hostname>>, u)),
                !.samples[name \o "_percent"] =
                    Append(@, Sample(<<hostname>>, [num |-> p.num, scale |-> p.scale]))]

\* collect, lines 394-400: the state of a VM whose stats are available
vm_state_of(stats) ==
    LET parsed == PyInt(GetOr(stats, "state", Str(<<"0">>)))
    IN  IF parsed.ok THEN parsed.val ELSE 0

\* collect, lines 390-432: the samples of one VM, given what get_vm_stats
\* returned (available: a dict; otherwise None)
vm_samples(samples, hostname, available, stats) ==
    IF available
    THEN LET s0 == [raised |-> FALSE,
                    samples |-> [samples EXCEPT
                        !["vm_stats_up"] = Append(@, Sample(<<hostname>>, 1)),
                        !["vm_state"] =
                            Append(@, Sample(<<hostname>>, vm_state_of(stats)))]]
             s1 == resource(s0, stats, hostname,
                            "totalbw", "usedbw", "percentbw", FALSE)
             s2 == resource(s1, stats, hostname,
                            "totalhdd", "usedhdd", "percenthdd", FALSE)
             s3 == resource(s2, stats, hostname,
                            "totalmem", "usedmem", "percentmem", TRUE)
         IN  resource(s3, stats, hostname,
                      "totalvswap", "usedvswap", "percentvswap", TRUE)
    ELSE [raised |-> FALSE,
          samples |-> [samples EXCEPT
              !["vm_stats_up"] = Append(@, Sample(<<hostname>>, 0)),
              !["vm_state"] = Append(@, Sample(<<hostname>>, 0))]]

\* a percent field of the object is there and float() rejects it
BadPercent(stats) ==
    \E k \in PercentKeys : stats[k] # Missing /\ ~PyFloat(stats[k]).ok

\* collect, lines 377-449, from the return of get_vm_stats: the samples of
\* this VM, then the next VM or the yields.  An exception ends the generator
\* before its first yield.
collect_stats(c, available, stats) ==
    LET vm == c.t.vms[c.t.idx]
        r == vm_samples(c.t.samples, vm.hostname, available, stats)
        c1 == [c EXCEPT !.t.got = Append(@, available),
                        !.t.bad_percent = @ \/ (available /\ BadPercent(stats))]
    IN  IF r.raised THEN Finish([c1 EXCEPT !.t.samples = NoSamples], "raised")
        ELSE IF c.t.idx < Len(c.t.vms)
        THEN collect_vm([c1 EXCEPT !.t.samples = r.samples, !.t.idx = @ + 1])
        ELSE Finish([c1 EXCEPT !.t.samples = r.samples], "ok")

\* the return of get_vm_stats to its caller
get_vm_stats_return(c, available, stats) ==
    IF c.t.op = "get_vm_stats"
    THEN Finish([c EXCEPT !.t.got = Append(@, available)], "returned")
    ELSE collect_stats(c, available, stats)

\* the return of the outermost get_vms to its caller; collect, lines 275-279
get_vms_return(c, vms) ==
    LET c1 == [c EXCEPT !.t.vms = vms, !.t.depth = 0]
    IN  IF c.t.op = "get_vms" THEN Finish(c1, "returned")
        ELSE IF vms = <<>> THEN Finish(c1, "empty")
        ELSE collect_vm([c1 EXCEPT !.t.idx = 1])

\* get_vms, lines 162-210: the page carries the marker; the list built from
\* its table is about to be returned
get_vms_listed(c, p) ==
    [c EXCEPT !.t.pc = "listed",
              !.t.listed = [done |-> TRUE, table |-> p.table, rows |-> p.rows],
              !.t.vms = IF p.table = "rows" THEN parse_rows(p.rows) ELSE <<>>]

\* get_vms, lines 168, 172 and 210: the list goes to the caller; the page is
\* forgotten
listed(c) == get_vms_return([c EXCEPT !.t.listed = NoListing], c.t.vms)

\* get_vms and get_vm_stats without the tests of lines 140, 158 and 218: the
\* request is issued whatever ensure_logged_in returned
ensured_unchecked(c) ==
    LET c1 == [c EXCEPT !.t.ens = NoEnsure, !.t.last_login = NoLogin,
                        !.t.prev_login = IF c.t.last_login.done
                                         THEN Previous(c.t.last_login) ELSE @]
    IN  CASE c.t.site = "list" ->
               [c1 EXCEPT !.t.pc = "home", !.s = "home", !.t.fetches = @ + 1]
          [] c.t.site = "retry" ->
               IF c.t.depth < MaxDepth
               THEN get_vms([c1 EXCEPT !.t.depth = @ + 1])
               ELSE get_vms_return(c1, <<>>)
          [] c.t.site = "stats" ->
               [c1 EXCEPT !.t.pc = "stats", !.s = "stats"]

\* get_vms, lines 140-144 and 158-160, and get_vm_stats, lines 218-223: the
\* caller of ensure_logged_in goes on with its result; what the call did is
\* forgotten.  Line 159 calls get_vms again; in the frame that would exceed
\* MaxDepth the interpreter raises RecursionError, which line 212 turns
\* into [].
ensured(c) ==
    LET r == c.t.ens.result
        c1 == [c EXCEPT !.t.ens = NoEnsure, !.t.last_login = NoLogin,
                        !.t.prev_login = IF c.t.last_login.done
                                         THEN Previous(c.t.last_login) ELSE @]
    IN  CASE c.t.site = "list" ->
               IF r THEN [c1 EXCEPT !.t.pc = "home", !.s = "home",
                                    !.t.fetches = @ + 1]
               ELSE get_vms_return(c1, <<>>)
          [] c.t.site = "retry" ->
               IF r /\ c.t.depth < MaxDepth
               THEN get_vms([c1 EXCEPT !.t.depth = @ + 1])
               ELSE get_vms_return(c1, <<>>)
          [] c.t.site = "stats" ->
               IF r THEN [c1 EXCEPT !.t.pc = "stats", !.s = "stats"]
               ELSE get_vm_stats_return(c1, FALSE, FullStats)

\* ensure_logged_in, lines 60 and 64: the value it returns
ensure_return(c, r) ==
    [c EXCEPT !.t.pc = "ensured", !.t.ens.done = TRUE, !.t.ens.result = r,
              !.t.ens.flag_after = c.f]

\* main without the test of line 471: the collector is registered and served
\* whatever login() returned
main_serves_anyway(c, r) == [c EXCEPT !.t.pc = "serving", !.srv = TRUE]

\* main, lines 471-479: the result of the first login
main_after_login(c, r) ==
    IF r THEN [c EXCEPT !.t.pc = "serving", !.srv = TRUE]
    ELSE [c EXCEPT !.t.pc = "exit", !.ec = "1"]

\* the return of login to ensure_logged_in (line 64) or to main (line 471)
login_return(c, r) ==
    LET c1 == [c EXCEPT !.t.last_login.done = TRUE, !.t.last_login.result = r,
                        !.t.last_login.flag_after = c.f]
    IN  IF c.t.op = "main" THEN main_after_login(c1, r)
        ELSE ensure_return([c1 EXCEPT !.t.ens.login_result = r], r)

(***************************************************************************)
(* Actions.                                                                *)
(***************************************************************************)
Running == exit_code = "running"

\* main, lines 468-471: the client is built and login() is called
main_start ==
    /\ Running
    /\ th[Main].pc = "idle"
    /\ Commit(Main, login([Context(Main) EXCEPT !.t.site = "main"]))
    /\ UNCHANGED locked

\* main, lines 483-488: KeyboardInterrupt while sleeping; the threads of the
\* metrics server are daemon threads and end with the process
interrupt ==
    /\ Running
    /\ th[Main].pc = "serving"
    /\ th' = [t \in Threads |->
                IF t = Main THEN [th[Main] EXCEPT !.pc = "exit"] ELSE IdleThread]
    /\ exit_code' = "0"
    /\ sent' = "none"
    /\ UNCHANGED <<logged_in, serving, locked, size_str, size, landing>>

\* the metrics server calls collect on thread t (registered at line 476,
\* served from line 479)
scrape(t) ==
    /\ Running /\ serving
    /\ th[t].pc \in {"idle", "done"}
    /\ Commit(t, get_vms([Context(t) EXCEPT
                              !.t = [IdleThread EXCEPT !.op = "collect", !.depth = 1]]))
    /\ UNCHANGED locked

\* login, lines 85-136: the response of the POST arrives
login_response(t, replies) ==
    /\ Running
    /\ th[t].pc = "login"
    /\ \E r \in replies :
          LET c == [Context(t) EXCEPT !.t.last_login.post = r]
              b == login_branch(r)
          IN  /\ IF b = "1"
                 THEN Commit(t, [c EXCEPT !.f = TRUE, !.t.pc = "verify",
                                          !.s = "verify"])
                 ELSE Commit(t, login_return(c, FALSE))
              /\ locked' = (locked \/ b \in {"2", "3"})

\* login, lines 105-112: the response of the verification GET arrives
verify_response(t, pages) ==
    /\ Running
    /\ th[t].pc = "verify"
    /\ \E p \in pages :
          LET c == [Context(t) EXCEPT !.t.last_login.verify =
                        IF p.err THEN "error"
                        ELSE IF p.logout THEN "marker" ELSE "no_marker"]
          IN  Commit(t, login_return(c, login_verified(p)))
    /\ UNCHANGED locked

\* ensure_logged_in, lines 59-64: the response of the probe arrives
probe_response(t, pages) ==
    /\ Running
    /\ th[t].pc = "probe"
    /\ \E p \in pages :
          LET c == [Context(t) EXCEPT !.t.ens.probe_ok = is_logged_in(p)]
          IN  IF is_logged_in(p)
              THEN Commit(t, ensure_return(c, TRUE))
              ELSE Commit(t, ensure_relogin(c))
    /\ UNCHANGED locked

\* the caller of ensure_logged_in goes on
after_ensure(t) ==
    /\ Running
    /\ th[t].pc = "ensured"
    /\ Commit(t, ensured(Context(t)))
    /\ UNCHANGED locked

\* get_vms, lines 144-214: the response of the GET of the landing page arrives
home_response(t, pages) ==
    /\ Running
    /\ th[t].pc = "home"
    /\ \E p \in pages :
          LET c == Context(t)
          IN  IF p.err \/ RaisesForStatus(p.code)
              THEN Commit(t, get_vms_return(c, <<>>))
              ELSE IF ~p.logout
              THEN Commit(t, ensure_logged_in([c EXCEPT !.f = FALSE], "retry"))
              ELSE Commit(t, get_vms_listed(c, p))
    /\ UNCHANGED locked

\* get_vms returns the list it built
after_list(t) ==
    /\ Running
    /\ th[t].pc = "listed"
    /\ Commit(t, listed(Context(t)))
    /\ UNCHANGED locked

\* get_vm_stats, lines 223-241: the response of the POST arrives
stats_response(t, replies) ==
    /\ Running
    /\ th[t].pc = "stats"
    /\ \E r \in replies :
          Commit(t, get_vm_stats_return(Context(t), stats_available(r), r.body))
    /\ UNCHANGED locked

Next ==
    \/ main_start
    \/ interrupt
    \/ \E t \in Scrapers :
          \/ scrape(t)
          \/ probe_response(t, Pages)
          \/ after_ensure(t)
          \/ home_response(t, Pages)
          \/ after_list(t)
          \/ stats_response(t, StatsReplies)
    \/ \E t \in {Main} \cup Scrapers :
          \/ login_response(t, LoginReplies)
          \/ verify_response(t, Pages)

Spec == Init /\ [][Next]_vars

(***************************************************************************)
(* The session protocol on its own: every page and every login reply, but  *)
(* a stats endpoint that answers only with the full object or with an      *)
(* object without success.                                                 *)
(***************************************************************************)
FewStatsReplies ==
    {Reply(FALSE, HttpOk, "dict", FullStats),
     Reply(FALSE, HttpOk, "dict", [FullStats EXCEPT !.success = Missing])}

NextSession ==
    \/ main_start
    \/ interrupt
    \/ \E t \in Scrapers :
          \/ scrape(t)
          \/ probe_response(t, Pages)
          \/ after_ensure(t)
          \/ home_response(t, Pages)
          \/ after_list(t)
          \/ stats_response(t, FewStatsReplies)
    \/ \E t \in {Main} \cup Scrapers :
          \/ login_response(t, LoginReplies)
          \/ verify_response(t, Pages)

SpecSession == Init /\ [][NextSession]_vars

(***************************************************************************)
(* The session protocol with the scheduling the code guarantees: a thread  *)
(* that is not waiting for the panel takes its next step.  No session.get  *)
(* or session.post call passes timeout= (lines 44, 81, 105, 144, 223), so  *)
(* nothing in the program makes a response arrive: the response actions    *)
(* carry no fairness, and neither do the pulls of the metrics endpoint.    *)
(***************************************************************************)
ProgramSteps ==
    /\ WF_vars(main_start)
    /\ \A t \in Scrapers : WF_vars(after_ensure(t)) /\ WF_vars(after_list(t))

SpecProgramFair == Init /\ [][NextSession]_vars /\ ProgramSteps

(***************************************************************************)
(* Two pulls of the metrics endpoint served at once: start_http_server     *)
(* (line 479) answers each pull on a thread of its own, and both threads   *)
(* call collect on the one client registered at line 476.  The panel's     *)
(* answers are drawn from smaller sets: an account with one VM.            *)
(***************************************************************************)
OneVM == <<Row(6, TRUE, "101", "alpha", "10.0.0.1")>>

FewPages ==
    {TransportError, Page(FALSE, HttpOk, TRUE, TRUE, "rows", OneVM)}
    \cup {Page(FALSE, HttpOk, lo, vl, "none", <<>>) : lo \in BOOLEAN, vl \in BOOLEAN}

FewLoginReplies ==
    {Reply(TRUE, 0, "invalid", NoBody)}
    \cup {Reply(FALSE, HttpOk, "dict", LoginBody(Bool(TRUE), st)) :
              st \in {Str(One), Str(<<"3">>)}}

NextConcurrent ==
    \/ main_start
    \/ interrupt
    \/ \E t \in ConcurrentScrapers :
          \/ scrape(t)
          \/ probe_response(t, FewPages)
          \/ after_ensure(t)
          \/ home_response(t, FewPages)
          \/ after_list(t)
          \/ stats_response(t, FewStatsReplies)
    \/ \E t \in {Main} \cup ConcurrentScrapers :
          \/ login_response(t, FewLoginReplies)
          \/ verify_response(t, FewPages)

SpecConcurrent == Init /\ [][NextConcurrent]_vars

(***************************************************************************)
(* A panel whose landing page does not change: every GET of /home.php, by  *)
(* the probe (line 44), the verification (line 105) and get_vms (line      *)
(* 144), is answered by the same response.  The login and stats endpoints  *)
(* answer as in the session protocol.                                      *)
(***************************************************************************)
InitStable ==
    /\ InitProcess
    /\ size_str = <<>>
    /\ size = NotParsed
    /\ landing \in Pages

NextStable ==
    \/ main_start
    \/ interrupt
    \/ \E t \in Scrapers :
          \/ scrape(t)
          \/ probe_response(t, {landing})
          \/ after_ensure(t)
          \/ home_response(t, {landing})
          \/ after_list(t)
          \/ stats_response(t, FewStatsReplies)
    \/ \E t \in {Main} \cup Scrapers :
          \/ login_response(t, LoginReplies)
          \/ verify_response(t, {landing})

SpecStable == InitStable /\ [][NextStable]_vars

(***************************************************************************)
(* parse_size on its own: the argument is any string of up to MaxSizeLen   *)
(* characters over SizeAlphabet, or one of the strings the panel sends,    *)
(* and the one action is the call.                                         *)
(***************************************************************************)
SizeAlphabet == {"2", ".", " ", "k", "M", "B", "X"}

SizeStrings ==
    UNION {[1..n -> SizeAlphabet] : n \in 0..MaxSizeLen}
    \cup {NullText, Chars100GB, Chars42GB, Chars2031GB, Chars512MB, Chars3Dots,
          <<"1", " ", "T", "B">>, <<"1", "2", "8", "m", "b">>}

InitSize ==
    /\ InitProcess
    /\ size_str \in SizeStrings
    /\ size = NotParsed
    /\ landing = TransportError

\* parse_size(size_str), lines 250-270
call_parse_size ==
    /\ ~size.called
    /\ size' = [called |-> TRUE, result |-> parse_size(Str(size_str))]
    /\ UNCHANGED <<logged_in, th, exit_code, serving, sent, locked, size_str,
                   landing>>

NextSize == call_parse_size

SpecSize == InitSize /\ [][NextSize]_vars

(***************************************************************************)
(* The claims.                                                             *)
(***************************************************************************)
Scrape(t) == th[t].op = "collect"
Hostnames(vms) == [i \in 1..Len(vms) |-> <<vms[i].hostname>>]
Labels(samples) == [i \in 1..Len(samples) |-> samples[i].labels]

\* C1: one get_vms call fetches the landing page for the inventory at most
\* twice: once, and once more after the single re-authentication.
C1_AtMostTwoFetches == \A t \in Scrapers : th[t].fetches <= 2

\* C2: ensure_logged_in calls login() exactly when the flag was clear or the
\* probe failed, and then only once, with the flag cleared before the call,
\* and returns what login() returned; with the flag set and the probe passed
\* it returns True after the probe alone and the flag is still set.  It does
\* not probe when the flag is clear.
C2_EnsureLoginIff ==
    \A t \in Scrapers :
       th[t].pc = "ensured" =>
          LET e == th[t].ens
              l == th[t].last_login
          IN  /\ e.done
              /\ e.logins \in {0, 1}
              /\ (e.logins = 1) <=> (~e.flag0 \/ ~e.probe_ok)
              /\ e.probed <=> e.flag0
              /\ (e.flag0 /\ e.probe_ok) =>
                    e.result /\ e.flag_after /\ ~l.done
              /\ ~(e.flag0 /\ e.probe_ok) =>
                    ~e.flag_at_login /\ l.done /\ e.result = l.result

\* C2 witness: the flag was set, the probe failed, and the one login() call
\* that followed succeeded
C2_Witness ==
    \E t \in Scrapers :
       /\ th[t].pc = "ensured"
       /\ th[t].ens.flag0 /\ th[t].ens.probed /\ ~th[t].ens.probe_ok
       /\ th[t].ens.logins = 1 /\ th[t].ens.result

\* C3: once a login response has carried status 2 or 3, no login request
\* is submitted any more.
C3_NoLoginAfterLockout == locked => sent # "login"

\* C4: at most one login() call is in progress on the shared client.
C4_OneLoginInFlight ==
    Cardinality({t \in Threads : th[t].pc \in {"login", "verify"}}) <= 1

TripleFamilies == FamilyNames \ {"vm_info", "vm_state", "vm_stats_up"}

\* C5: in a finished snapshot, a VM whose get_vm_stats returned None has
\* availability 0, state 0 and a zero sample in each of the twelve families
\* of totals, used amounts and percentages.
C5_UnavailableZeroed ==
    \A t \in Scrapers :
       (Scrape(t) /\ th[t].result = "ok") =>
          \A i \in 1..Len(th[t].got) :
             ~th[t].got[i] =>
                /\ th[t].samples["vm_stats_up"][i].value = 0
                /\ th[t].samples["vm_state"][i].value = 0
                /\ \A f \in TripleFamilies :
                      \E k \in 1..Len(th[t].samples[f]) :
                         /\ th[t].samples[f][k].labels = <<th[t].vms[i].hostname>>
                         /\ th[t].samples[f][k].value.num = 0

\* C6: a scrape of a non-empty list ends with a snapshot; it asked for the
\* stats of each listed VM once, in list order, and the snapshot has one
\* info, one availability and one state sample per listed VM, in list order.
C6_OneEntryPerVM ==
    \A t \in Scrapers :
       (Scrape(t) /\ th[t].pc = "done" /\ th[t].vms # <<>>) =>
          /\ th[t].result = "ok"
          /\ th[t].asked = [i \in 1..Len(th[t].vms) |-> th[t].vms[i].vm_id]
          /\ Labels(th[t].samples["vm_stats_up"]) = Hostnames(th[t].vms)
          /\ Labels(th[t].samples["vm_state"]) = Hostnames(th[t].vms)
          /\ Len(th[t].samples["vm_info"]) = Len(th[t].vms)

\* C7: a scrape in which an available stats object carried a percent field
\* that float() rejects still ends with a snapshot.
C7_BadPercentDegrades ==
    \A t \in Scrapers :
       (Scrape(t) /\ th[t].pc = "done" /\ th[t].bad_percent) => th[t].result = "ok"

\* C8: login() returns True exactly when the POST was answered without an
\* HTTP error by a JSON object whose success is true and whose status is
\* "1", and the verification page carried the marker; and when it returns
\* True the flag is set.
C8_LoginSuccessIff ==
    \A t \in {Main} \cup Scrapers :
       LET l == th[t].last_login
       IN  l.done =>
              /\ l.result <=>
                    /\ ~l.post.err
                    /\ l.post.code = HttpOk
                    /\ l.post.json = "dict"
                    /\ l.post.body.success = Bool(TRUE)
                    /\ l.post.body.status = Str(One)
                    /\ l.verify = "marker"
              /\ l.result => l.flag_after

\* C8 witness: a re-login during a scrape that the panel accepted and whose
\* verification page carried the marker
C8_Witness ==
    \E t \in Scrapers :
       /\ th[t].last_login.done
       /\ th[t].last_login.result
       /\ th[t].last_login.verify = "marker"

\* the cause of a failed login() in the words of the error taxonomy
Cause(branch, verify) ==
    CASE branch = "1" /\ verify = "marker" -> "Success"
      [] branch = "1" /\ verify = "no_marker" -> "VerificationFailed"
      [] branch = "1" -> "FetchError"
      [] branch = "2" -> "AccountLocked"
      [] branch = "3" -> "InvalidCredentials"
      [] branch = "4" -> "UnsupportedAuthMethod"
      [] OTHER -> "ProtocolError"

OtherFailures ==
    {"InvalidCredentials", "AccountLocked", "UnsupportedAuthMethod", "ProtocolError"}

\* C9: a login() call that failed its verification and a login() call that
\* failed for bad credentials, a locked account, two-factor authentication
\* or a protocol error returned different values.
C9_CausesDistinguished ==
    \A t \in Scrapers :
       LET l == th[t].last_login
           q == th[t].prev_login
           cl == Cause(login_branch(l.post), l.verify)
           cq == Cause(q.branch, q.verify)
       IN  (/\ l.done /\ q.done
            /\ \/ cl = "VerificationFailed" /\ cq \in OtherFailures
               \/ cq = "VerificationFailed" /\ cl \in OtherFailures) =>
              l.result # q.result

\* C10: every state sample of a snapshot is 0 or 1.
C10_StateIsZeroOrOne ==
    \A t \in Scrapers :
       \A k \in 1..Len(th[t].samples["vm_state"]) :
          th[t].samples["vm_state"][k].value \in {0, 1}

\* a row that becomes a VM: at least 6 cells and, in the second cell, a link
\* whose href carries _v
WellFormed(row) == row.cells >= 6 /\ row.link /\ row.v # ""

\* C11: the list get_vms builds from a page with the table is the
\* subsequence of the well-formed rows of the table, in the order of the
\* table: the k-th VM is the k-th well-formed row, whatever malformed rows
\* stand before, between or after.
C11_WellFormedRowsInOrder ==
    \A t \in Scrapers :
       (th[t].pc = "listed" /\ th[t].listed.table = "rows") =>
          LET rows == th[t].listed.rows
              vms == th[t].vms
              good == {i \in 1..Len(rows) : WellFormed(rows[i])}
          IN  /\ Len(vms) = Cardinality(good)
              /\ \A i \in good :
                    LET k == Cardinality({j \in good : j <= i})
                    IN  /\ vms[k].vm_id = rows[i].v
                        /\ vms[k].hostname = rows[i].hostname
                        /\ vms[k].ip_address = rows[i].ip

\* C11 witness: a malformed row before a well-formed one, and the list is
\* the well-formed one
C11_Witness ==
    \E t \in Scrapers :
       /\ th[t].pc = "listed"
       /\ Len(th[t].listed.rows) = 2
       /\ ~WellFormed(th[t].listed.rows[1])
       /\ WellFormed(th[t].listed.rows[2])
       /\ Len(th[t].vms) = 1

\* C12: a scrape that has started ends, also when the panel stops answering:
\* the thread does not wait on a request for ever.
C12_ScrapeCompletes ==
    \A t \in Scrapers :
       [](Scrape(t) /\ th[t].pc # "done" => <>(th[t].pc \in {"done", "idle"}))

\* a step of the life cycle of main: serving starts only in the step in
\* which main's first login() returns True; the exit code 1 is set only in
\* the step in which it returns False; the exit code 0 is set only by main,
\* interrupted while it serves; no step of a scrape thread changes the exit
\* code; serving, once started, is not withdrawn.
LifecycleStep ==
    /\ (serving' /\ ~serving) =>
          /\ th[Main].pc \in {"login", "verify"}
          /\ th'[Main].last_login.result
          /\ exit_code' = "running"
    /\ (th[Main].pc \in {"login", "verify"} /\ th'[Main].last_login.done) =>
          IF th'[Main].last_login.result
          THEN serving' /\ exit_code' = "running"
          ELSE ~serving' /\ exit_code' = "1"
    /\ exit_code' # exit_code =>
          /\ exit_code = "running"
          /\ th'[Main] # th[Main]
          /\ th'[Main].pc = "exit"
          /\ (exit_code' = "0") <=> (th[Main].pc = "serving")
    /\ serving => serving'

\* C13: a process that serves had its first login() return True and is
\* running or has ended with 0; a process that ended with 1 had its first
\* login() return False and never served; and every step is a step of the
\* life cycle above, so no login failure of a scrape ends the process and an
\* interrupt ends it with 0.
C13_Lifecycle ==
    /\ [](serving => (/\ th[Main].last_login.done
                      /\ th[Main].last_login.result
                      /\ exit_code \in {"running", "0"}))
    /\ [](exit_code = "1" => (/\ ~serving
                              /\ th[Main].last_login.done
                              /\ ~th[Main].last_login.result))
    /\ [][LifecycleStep]_vars

\* C13 witness: while the process serves, ensure_logged_in of a scrape has
\* returned False after a login() that failed, and the process is running
C13_Witness ==
    \E t \in Scrapers :
       /\ serving /\ exit_code = "running"
       /\ th[t].pc = "ensured"
       /\ th[t].ens.logins = 1 /\ ~th[t].ens.result

\* the unit of a well-formed size string and its power of 1024; no unit
\* means GB
UnitNames ==
    {<<>>, <<"K", "B">>, <<"M", "B">>, <<"G", "B">>, <<"T", "B">>}

PowerOf(u) ==
    CASE u = <<"K", "B">> -> 1 [] u = <<"M", "B">> -> 2
      [] u = <<"T", "B">> -> 4 [] OTHER -> 3

UpperText(s) == [k \in 1..Len(s) |-> Upper(s[k])]

\* the ways to read s as <number>[ ]<unit>?: the number is the first k
\* characters, a numeral with at most one decimal point, and what follows
\* is blank space and a unit or nothing; blank space around s and the case
\* of the unit do not count
SizeReadings(s) ==
    LET t == Strip(s)
    IN  {k \in 1..Len(t) :
            /\ IsDecimal(SubSeq(t, 1, k))
            /\ UpperText(LStrip(SubSeq(t, k + 1, Len(t)))) \in UnitNames}

\* C14: parse_size ends without an exception for every string; it returns
\* zero for a string that is not of the form <number>[ ]<unit>?, and for a
\* string of that form the number times 1024 to the power of its unit.
C14_ParseSizeTotal ==
    size.called =>
       LET t == Strip(size_str)
           r == size.result
       IN  /\ ~r.raised
           /\ (SizeReadings(size_str) = {}) => r.num = 0
           /\ \A k \in SizeReadings(size_str) :
                 /\ r.num = DecimalOf(SubSeq(t, 1, k)).num
                 /\ r.scale = DecimalOf(SubSeq(t, 1, k)).scale
                 /\ r.unit = PowerOf(UpperText(LStrip(SubSeq(t, k + 1, Len(t)))))

\* C15: when a login() call of a scrape returns False the flag is clear at
\* the return.
C15_FlagClearAfterFailedLogin ==
    \A t \in Scrapers :
       (th[t].last_login.done /\ ~th[t].last_login.result) =>
          ~th[t].last_login.flag_after

\* a step of thread t seen from the privileged requests: the inventory GET
\* and the stats POST are issued only by the caller of an ensure_logged_in
\* call that returned True; after one that returned False the caller issues
\* neither, get_vms returns [] and get_vm_stats returns None.
PrivilegedStep(t) ==
    LET a == th[t]
        b == th'[t]
        \* the caller of ensure_logged_in goes on (the process is not ended)
        returned == a.pc = "ensured" /\ b # a /\ exit_code' = "running"
    IN  /\ (b.pc = "home" /\ a.pc # "home") =>
              returned /\ a.ens.result /\ a.site = "list" /\ sent' = "home"
        /\ (b.pc = "stats" /\ a.pc # "stats") =>
              returned /\ a.ens.result /\ a.site = "stats" /\ sent' = "stats"
        /\ (returned /\ ~a.ens.result) =>
              /\ sent' \notin {"home", "stats"}
              /\ b.fetches = a.fetches
              /\ a.site \in {"list", "retry"} =>
                    b.vms = <<>> /\ b.pc = "done" /\ b.result = "empty"
              /\ a.site = "stats" => b.got = Append(a.got, FALSE)
        /\ (b # a /\ sent' \in {"home", "stats"}) => returned /\ a.ens.result

\* C16: every step of every scrape is such a step.
C16_PrivilegedAfterEnsure == [][\A t \in Scrapers : PrivilegedStep(t)]_vars

\* C16 witness: a scrape ended with the empty list without any inventory
\* fetch, which is the return of get_vms after a failed ensure_logged_in
C16_Witness ==
    \E t \in Scrapers :
       /\ Scrape(t) /\ th[t].pc = "done"
       /\ th[t].result = "empty" /\ th[t].fetches = 0

\* C17: with a landing page that does not change, every ensure_logged_in
\* call of a scrape (each follows the login() of main that returned True)
\* returns True without calling login().
C17_StableSessionNoRelogin ==
    \A t \in Scrapers :
       th[t].pc = "ensured" => th[t].ens.result /\ th[t].ens.logins = 0

\* C18: in a snapshot of a list whose VM ids are pairwise distinct, no two
\* samples of one family carry the same labels.
C18_EntriesDistinctByKey ==
    \A t \in Scrapers :
       (/\ Scrape(t) /\ th[t].result = "ok"
        /\ \A i, j \in 1..Len(th[t].vms) :
              th[t].vms[i].vm_id = th[t].vms[j].vm_id => i = j) =>
          \A f \in FamilyNames :
             \A i, j \in 1..Len(th[t].samples[f]) :
                th[t].samples[f][i].labels = th[t].samples[f][j].labels => i = j

====
